---- MODULE Spec2Model ----
(***************************************************************************)
(* Model of the sandboxed command terminal (src/main.py, class Terminal).  *)
(*                                                                         *)
(* The file system is a finite tree of absolute paths.  A path is the      *)
(* sequence of its components, << >> being "/".  The sandbox root is the   *)
(* directory /sb; /a and /a/f lie outside of it.          Symbolic links   *)
(* exist only where the initial state puts them: no command of the         *)
(* terminal creates one.                                                   *)
(***************************************************************************)
EXTENDS Integers, Sequences, FiniteSets, TLC

VARIABLES
    fs,        \* the file system: path -> entry
    cwd,       \* Terminal.cwd
    raw_line,  \* the line of the current invocation
    parse,     \* "ok" or "error" once the line went through shlex.split
    cmd,       \* tokens[0] of the invocation
    handler,   \* the handler the invocation called
    out,       \* what the invocation printed
    exc,       \* the exception raised inside the invocation
    status,    \* "ready" between invocations, else how the invocation ended
    proc,      \* the process: "running", "exit 0" or "exit 1"
    root,      \* Terminal.root
    commands,  \* Terminal.commands
    output     \* what run_command of the Streamlit front end returned

vars == <<fs, cwd, raw_line, parse, cmd, handler, out, exc, status, proc,
          root, commands, output>>

(***************************************************************************)
(* Bounds of the model.                                                    *)
(***************************************************************************)
\* longest path (in components) the file system may hold
MaxDepth == 3
\* largest number of entries the file system may hold
MaxNodes == 6

(***************************************************************************)
(* Paths.                                                                  *)
(***************************************************************************)
\* Terminal.root after root.resolve(): the sandbox root
ROOT == <<"sb">>

Parent(p) == IF p = <<>> THEN <<>> ELSE SubSeq(p, 1, Len(p) - 1)

\* PurePath.name: the final component, "" for "/"
Name(p) == IF p = <<>> THEN "" ELSE p[Len(p)]

IsPrefix(a, b) == Len(a) <= Len(b) /\ SubSeq(b, 1, Len(a)) = a

\* p.relative_to(root) does not raise ValueError
RelativeTo(p, base) == IsPrefix(base, p)

\* root / name: joining "" leaves the path as it is
Join(p, name) == IF name = "" THEN p ELSE Append(p, name)

RECURSIVE PathText(_)
\* str(path)
PathText(p) ==
    IF p = <<>> THEN "/"
    ELSE IF Len(p) = 1 THEN "/" \o p[1]
    ELSE PathText(Parent(p)) \o "/" \o Name(p)

(***************************************************************************)
(* The file system: fs maps every existing path to its entry.              *)
(***************************************************************************)
\* modification times are not part of an entry
Dir == [kind |-> "dir", target |-> <<>>, lines |-> <<>>]
File(ls) == [kind |-> "file", target |-> <<>>, lines |-> ls]
Link(to) == [kind |-> "link", target |-> to, lines |-> <<>>]

\* os.lstat succeeds
LExists(f, p) == p \in DOMAIN f
IsLink(f, p) == LExists(f, p) /\ f[p].kind = "link"

RECURSIVE Walk(_, _, _, _)
\* os.path.realpath, strict=False: acc is the canonical prefix built so far,
\* rest the components still to consume; a link restarts the walk at its
\* (absolute) target; fuel bounds the number of links followed
Walk(f, acc, rest, fuel) ==
    IF rest = <<>> THEN acc
    ELSE LET h == Head(rest)
             t == Tail(rest)
         IN  IF h = "." THEN Walk(f, acc, t, fuel)
             ELSE IF h = ".." THEN Walk(f, Parent(acc), t, fuel)
             ELSE LET q == Append(acc, h)
                  IN  IF IsLink(f, q) /\ fuel > 0
                      THEN Walk(f, <<>>, f[q].target \o t, fuel - 1)
                      ELSE Walk(f, q, t, fuel)

\* Path.resolve() of an absolute path given by its components
Resolve(f, p) == Walk(f, <<>>, p, MaxNodes)

\* what os.lstat finds at the path q: "none" when nothing is there
Kind(f, q) == IF q \in DOMAIN f THEN f[q].kind ELSE "none"

\* Path.exists(), Path.is_dir(), Path.is_file(): all of them follow links
Exists(f, p) == Kind(f, Resolve(f, p)) \in {"dir", "file"}
IsDir(f, p) == Kind(f, Resolve(f, p)) = "dir"
IsFile(f, p) == Kind(f, Resolve(f, p)) = "file"

(***************************************************************************)
(* Path strings.  pathlib.Path(s) splits a string on "/", drops empty and  *)
(* "." components and keeps "..": Parts lists what it yields for the       *)
(* strings the model feeds to the terminal.                                *)
(***************************************************************************)
\* the path arguments typed by the user
PathStrs == {".", "..", "a", "f", "./a/f", "/a/f"}

\* Path(s).is_absolute()
IsAbsolute(s) == s \in {"/a/f"}

\* Path(s).parts without the anchor
Parts(s) ==
    CASE s = "."      -> <<>>
      [] s = ".."     -> <<"..">>
      [] s = "./a/f"  -> <<"a", "f">>
      [] s = "/a/f"   -> <<"a", "f">>
      [] OTHER        -> <<s>>

\* a clamp that sends every escaping path to the root itself
ClampToRoot(f, p) == ROOT

\* the clamp of Terminal._resolve_path: (self.root / p.name).resolve()
Clamp(f, p) == Resolve(f, Join(ROOT, Name(p)))

\* a first half that joins a relative path to the root, not to cwd
CanonicalFromRoot(f, c, s) ==
    IF IsAbsolute(s) THEN Resolve(f, Parts(s)) ELSE Resolve(f, ROOT \o Parts(s))

\* the first half of Terminal._resolve_path for a non-empty string:
\* (self.cwd / p).resolve(), or p.resolve() when p is absolute
Canonical(f, c, s) ==
    IF IsAbsolute(s) THEN Resolve(f, Parts(s)) ELSE Resolve(f, c \o Parts(s))

\* Terminal._resolve_path(path_str) in the file system f with self.cwd = c
ResolvePath(f, c, s) ==
    IF s = "" THEN c
    ELSE LET p == Canonical(f, c, s)
         IN  IF RelativeTo(p, ROOT) THEN p ELSE Clamp(f, p)

\* Path.resolve() found a link that leads back to itself: the walk ran out
\* of fuel and left a link inside its result
SymlinkLoop(f, p) == \E n \in 1..Len(p) : IsLink(f, SubSeq(p, 1, n))

\* Terminal._resolve_path(path_str) raises: one of its two resolve() calls
\* meets a symlink loop
ResolveRaises(f, c, s) ==
    /\ s # ""
    /\ LET p == Canonical(f, c, s)
       IN  \/ SymlinkLoop(f, p)
           \/ ~RelativeTo(p, ROOT) /\ SymlinkLoop(f, Clamp(f, p))

(***************************************************************************)
(* Output and exceptions.                                                  *)
(***************************************************************************)
\* a line written by print()
Line(text) == [err |-> FALSE, text |-> text]
\* Terminal._print_err(msg): print(f"error: {msg}")
PrintErr(msg) == [err |-> TRUE, text |-> msg]

NoExc == [type |-> "none", text |-> ""]
Raise(type, text) == [type |-> type, text |-> text]

(***************************************************************************)
(* Tokenizer: shlex.split(line).  A line is a sequence of lexemes: a run   *)
(* of blanks " ", a quote character, a backslash, or a run of ordinary     *)
(* characters.                                                             *)
(***************************************************************************)
SP == " "
SQ == "'"
DQ == "\""
BS == "\\"

RECURSIVE Lex(_, _, _, _, _, _)
\* shlex.read_token in POSIX mode with whitespace_split; state is " " (between
\* tokens), "a" (in a word), a quote, or BS (after a backslash, esc holding
\* the state to return to); has tells whether a token has been started
Lex(rest, state, esc, tok, has, acc) ==
    IF rest = <<>> THEN
        IF state \in {SQ, DQ}
        THEN [ok |-> FALSE, toks |-> <<>>, err |-> "No closing quotation"]
        ELSE IF state = BS
        THEN [ok |-> FALSE, toks |-> <<>>, err |-> "No escaped character"]
        ELSE [ok |-> TRUE, toks |-> IF has THEN Append(acc, tok) ELSE acc,
              err |-> ""]
    ELSE LET ch == Head(rest)
             t == Tail(rest)
         IN  CASE state = BS ->
                    Lex(t, esc, esc,
                        IF esc \in {SQ, DQ} /\ ch # BS /\ ch # esc
                        THEN tok \o BS \o ch ELSE tok \o ch,
                        TRUE, acc)
               [] state \in {SQ, DQ} ->
                    IF ch = state THEN Lex(t, "a", esc, tok, TRUE, acc)
                    ELSE IF ch = BS /\ state = DQ
                    THEN Lex(t, BS, state, tok, TRUE, acc)
                    ELSE Lex(t, state, esc, tok \o ch, TRUE, acc)
               [] state = "a" /\ ch = SP ->
                    Lex(t, SP, esc, "", FALSE, Append(acc, tok))
               [] state = SP /\ ch = SP ->
                    Lex(t, SP, esc, "", FALSE, acc)
               [] OTHER ->
                    IF ch \in {SQ, DQ} THEN Lex(t, ch, esc, tok, TRUE, acc)
                    ELSE IF ch = BS THEN Lex(t, BS, "a", tok, TRUE, acc)
                    ELSE Lex(t, "a", esc, tok \o ch, TRUE, acc)

RECURSIVE Words(_, _, _, _)
\* str.split(): the blank-separated words, quotes taken as they come
Words(rest, tok, has, acc) ==
    IF rest = <<>> THEN IF has THEN Append(acc, tok) ELSE acc
    ELSE IF Head(rest) = SP
    THEN Words(Tail(rest), "", FALSE, IF has THEN Append(acc, tok) ELSE acc)
    ELSE Words(Tail(rest), tok \o Head(rest), TRUE, acc)

\* a tokenizer that splits on blanks only and never fails
SplitWords(line) == [ok |-> TRUE, toks |-> Words(line, "", FALSE, <<>>),
                     err |-> ""]

\* shlex.split(line): the tokens, or the ValueError it raises
Split(line) == Lex(line, SP, "a", "", FALSE, <<>>)

(***************************************************************************)
(* File-system primitives.                                                 *)
(***************************************************************************)
Prefixes(p) == {SubSeq(p, 1, n) : n \in 0..Len(p)}

\* the deepest existing ancestor-or-self of p ("/" always exists)
Anc(f, p) ==
    CHOOSE q \in Prefixes(p) \cap DOMAIN f :
        \A r \in Prefixes(p) \cap DOMAIN f : Len(r) <= Len(q)

\* the file system g with the entries of h added or replaced
Over(g, h) ==
    [q \in DOMAIN g \cup DOMAIN h |-> IF q \in DOMAIN h THEN h[q] ELSE g[q]]

\* the file system f without the paths in gone
Without(f, gone) == [q \in DOMAIN f \ gone |-> f[q]]

\* the paths of the tree rooted at p
Tree(f, p) == {q \in DOMAIN f : IsPrefix(p, q)}

\* Path(p).mkdir(parents=True, exist_ok=True) on a canonical path p:
\* the new file system, or the OSError raised
Mkdir(f, p) ==
    LET a == Anc(f, p)
    IN  IF a = p
        THEN IF f[p].kind = "dir" THEN [fs |-> f, exc |-> NoExc]
             ELSE [fs |-> f,
                   exc |-> Raise("FileExistsError",
                                 "File exists: " \o PathText(p))]
        ELSE IF f[a].kind # "dir"
        THEN [fs |-> f,
              exc |-> Raise("NotADirectoryError",
                            "Not a directory: " \o PathText(p))]
        ELSE [fs |-> Over(f, [q \in {r \in Prefixes(p) : Len(r) > Len(a)}
                                 |-> Dir]),
              exc |-> NoExc]

\* shutil.rmtree(p) on a canonical directory p
Rmtree(f, p) == Without(f, Tree(f, p))

\* Path(p).unlink()
Unlink(f, p) == Without(f, {p})

(***************************************************************************)
(* Handlers.  A handler maps the state st = [fs, cwd, out, exc, stdin] it  *)
(* is called in to the state it leaves; exc # NoExc when it raised.        *)
(***************************************************************************)
Say(st, l) == [st EXCEPT !.out = Append(@, l)]
Throw(st, e) == [st EXCEPT !.exc = e]
\* the RuntimeError of Path.resolve() in Terminal._resolve_path
Loop(st, s) == Throw(st, Raise("RuntimeError", "Symlink loop from " \o s))
\* Terminal._resolve_path(s) raises in the state st
Loops(st, s) == ResolveRaises(st.fs, st.cwd, s)

\* str.strip().lower() on the answers the model types
StripLower(s) == CASE s = " Y " -> "y" [] OTHER -> s

\* a confirmation that takes every answer, and end-of-input, for a yes
ConfirmAlways(st, prompt) ==
    LET asked == Say(st, Line(prompt \o " [y/N]: "))
    IN  IF st.stdin = <<>>
        THEN [st |-> asked, yes |-> TRUE]
        ELSE [st |-> [asked EXCEPT !.stdin = Tail(@)], yes |-> TRUE]

\* Terminal._confirm(prompt): the state after input(), and the answer
Confirm(st, prompt) ==
    LET asked == Say(st, Line(prompt \o " [y/N]: "))
    IN  IF st.stdin = <<>>
        THEN [st |-> asked, yes |-> FALSE]
        ELSE [st |-> [asked EXCEPT !.stdin = Tail(@)],
              yes |-> StripLower(Head(st.stdin)) = "y"]

\* a pwd that also moves the session to the root
cmd_pwd_home(st, args) == [Say(st, Line(PathText(st.cwd))) EXCEPT !.cwd = ROOT]

\* Terminal.cmd_pwd
cmd_pwd(st, args) == Say(st, Line(PathText(st.cwd)))

\* a re-check that lets every path through
RecheckSkipped(path) == TRUE

\* the confinement re-check of cmd_cd: path.relative_to(self.root)
Recheck(path) == RelativeTo(path, ROOT)

\* a cmd_cd that commits its target without looking at what it names
cmd_cd_unchecked(st, args) ==
    LET path == IF args # <<>> THEN ResolvePath(st.fs, st.cwd, args[1])
                ELSE ROOT
    IN  IF args # <<>> /\ Loops(st, args[1]) THEN Loop(st, args[1])
        ELSE IF ~Recheck(path)
        THEN Say(st, PrintErr("access outside project root is blocked"))
        ELSE [st EXCEPT !.cwd = path]

\* Terminal.cmd_cd
cmd_cd(st, args) ==
    LET path == IF args # <<>> THEN ResolvePath(st.fs, st.cwd, args[1])
                ELSE ROOT
    IN  IF args # <<>> /\ Loops(st, args[1]) THEN Loop(st, args[1])
        ELSE IF ~Exists(st.fs, path) \/ ~IsDir(st.fs, path)
        THEN Say(st, PrintErr("no such directory"))
        ELSE IF ~Recheck(path)
        THEN Say(st, PrintErr("access outside project root is blocked"))
        ELSE [st EXCEPT !.cwd = path]

RECURSIVE MkdirEach(_, _)
\* the loop of cmd_mkdir
MkdirEach(st, ds) ==
    IF ds = <<>> THEN st
    ELSE IF Loops(st, Head(ds)) THEN Loop(st, Head(ds))
    ELSE LET r == Mkdir(st.fs, ResolvePath(st.fs, st.cwd, Head(ds)))
         IN  IF r.exc # NoExc THEN Throw(st, r.exc)
             ELSE MkdirEach([st EXCEPT !.fs = r.fs], Tail(ds))

\* Terminal.cmd_mkdir
cmd_mkdir(st, args) ==
    IF args = <<>> THEN Say(st, PrintErr("usage: mkdir <dir>..."))
    ELSE MkdirEach(st, args)

\* the argument loop of cmd_rm: [recursive, paths]
RmArgs(args) ==
    [recursive |-> \E i \in 1..Len(args) : args[i] = "-r",
     paths |-> SelectSeq(args, LAMBDA a : a # "-r")]

RECURSIVE RmEach(_, _, _)
\* the path loop of cmd_rm
RmEach(st, recursive, paths) ==
    IF paths = <<>> THEN st
    ELSE IF Loops(st, Head(paths)) THEN Loop(st, Head(paths))
    ELSE LET pstr == Head(paths)
             p == ResolvePath(st.fs, st.cwd, pstr)
             c == Confirm(st, "rm -r " \o PathText(p))
         IN  IF ~Exists(st.fs, p)
             THEN RmEach(Say(st, PrintErr("not found: " \o pstr)),
                         recursive, Tail(paths))
             ELSE IF IsDir(st.fs, p)
             THEN IF ~recursive
                  THEN RmEach(Say(st, PrintErr("is a directory (use -r): "
                                               \o pstr)),
                              recursive, Tail(paths))
                  ELSE IF ~c.yes
                  THEN RmEach(Say(c.st, Line("aborted")), recursive,
                              Tail(paths))
                  ELSE RmEach([c.st EXCEPT !.fs = Rmtree(@, p)], recursive,
                              Tail(paths))
             ELSE RmEach([st EXCEPT !.fs = Unlink(@, p)], recursive,
                         Tail(paths))

\* an rm that takes -r as given
cmd_rm_recursive(st, args) ==
    IF args = <<>> THEN Say(st, PrintErr("usage: rm [-r] <path>..."))
    ELSE RmEach(st, TRUE, RmArgs(args).paths)

\* Terminal.cmd_rm
cmd_rm(st, args) ==
    IF args = <<>> THEN Say(st, PrintErr("usage: rm [-r] <path>..."))
    ELSE RmEach(st, RmArgs(args).recursive, RmArgs(args).paths)

\* open(p, 'a') on a canonical path p whose parent directory exists: the
\* file is created empty, or kept as it is
OpenAppend(f, p) ==
    IF p \in DOMAIN f /\ f[p].kind = "dir"
    THEN [fs |-> f,
          exc |-> Raise("IsADirectoryError", "Is a directory: " \o PathText(p))]
    ELSE [fs |-> Over(f, [q \in {p} |->
                     File(IF p \in DOMAIN f THEN f[p].lines ELSE <<>>)]),
          exc |-> NoExc]

RECURSIVE TouchEach(_, _)
\* the loop of cmd_touch
TouchEach(st, fl) ==
    IF fl = <<>> THEN st
    ELSE IF Loops(st, Head(fl)) THEN Loop(st, Head(fl))
    ELSE LET p == ResolvePath(st.fs, st.cwd, Head(fl))
             m == Mkdir(st.fs, Parent(p))
             o == OpenAppend(m.fs, p)
         IN  IF m.exc # NoExc THEN Throw(st, m.exc)
             ELSE IF o.exc # NoExc
             THEN Throw([st EXCEPT !.fs = m.fs], o.exc)
             ELSE TouchEach([st EXCEPT !.fs = o.fs], Tail(fl))

\* Terminal.cmd_touch
cmd_touch(st, args) ==
    IF args = <<>> THEN Say(st, PrintErr("usage: touch <file>..."))
    ELSE TouchEach(st, args)

\* Terminal.cmd_echo: print(' '.join(args))
RECURSIVE JoinSp(_)
JoinSp(args) ==
    IF args = <<>> THEN ""
    ELSE IF Len(args) = 1 THEN args[1]
    ELSE args[1] \o " " \o JoinSp(Tail(args))

cmd_echo(st, args) == Say(st, Line(JoinSp(args)))

\* a cmd_exit that signals the end with an ordinary exception
cmd_exit_error(st, args) == Throw(st, Raise("Exception", "exit"))

\* Terminal.cmd_exit: raise SystemExit(0)
cmd_exit(st, args) == Throw(st, Raise("SystemExit", "0"))

(***************************************************************************)
(* Copying and moving (shutil).                                            *)
(***************************************************************************)
\* the order in which the model lists and sorts names
NameOrder == <<"a", "f", "sb">>

\* os.scandir(p): the names in directory p, in listing order
Listing(f, p) ==
    LET real == Resolve(f, p)
    IN  SelectSeq(NameOrder, LAMBDA n : Append(real, n) \in DOMAIN f)

\* p names a link whose target does not exist
Dangling(f, p) ==
    p # <<>> /\ IsLink(f, Append(Resolve(f, Parent(p)), Name(p)))
             /\ ~Exists(f, p)

\* os.makedirs(p, exist_ok=True)
Makedirs(f, p) ==
    IF Dangling(f, p)
    THEN [fs |-> f,
          exc |-> Raise("FileExistsError", "File exists: " \o PathText(p))]
    ELSE Mkdir(f, Resolve(f, p))

\* shutil.copy2(src, dst): the bytes of src written to dst, or to
\* dst/basename(src) when dst is a directory
Copy2(f, src, dst) ==
    LET d == IF IsDir(f, dst) THEN Append(dst, Name(src)) ELSE dst
        from == Resolve(f, src)
        to == Resolve(f, d)
    IN  IF ~Exists(f, src)
        THEN [fs |-> f, exc |-> Raise("FileNotFoundError",
                  "No such file or directory: " \o PathText(src))]
        ELSE IF Exists(f, d) /\ from = to
        THEN [fs |-> f, exc |-> Raise("SameFileError",
                  PathText(src) \o " and " \o PathText(d)
                  \o " are the same file")]
        ELSE IF IsDir(f, d)
        THEN [fs |-> f, exc |-> Raise("IsADirectoryError",
                  "Is a directory: " \o PathText(d))]
        ELSE IF ~IsDir(f, Parent(to))
        THEN [fs |-> f, exc |-> Raise("FileNotFoundError",
                  "No such file or directory: " \o PathText(d))]
        ELSE [fs |-> Over(f, [q \in {to} |-> File(f[from].lines)]),
              exc |-> NoExc]

RECURSIVE CopyTree(_, _, _, _)
RECURSIVE CopyEntries(_, _, _, _, _)
\* the entry loop of shutil._copytree: an Error or OSError of one entry is
\* collected (bad) and the loop goes on
CopyEntries(r, names, src, dst, fuel) ==
    IF names = <<>> THEN r
    ELSE LET s == Append(src, Head(names))
             d == Append(dst, Head(names))
             c == IF IsDir(r.fs, s) THEN CopyTree(r.fs, s, d, fuel - 1)
                  ELSE LET x == Copy2(r.fs, s, d)
                       IN  [fs |-> x.fs, bad |-> x.exc # NoExc,
                            exc |-> NoExc, deep |-> FALSE]
         IN  CopyEntries([fs |-> c.fs,
                          bad |-> r.bad \/ c.bad \/ c.exc # NoExc,
                          exc |-> NoExc, deep |-> r.deep \/ c.deep],
                         Tail(names), src, dst, fuel)

\* shutil.copytree(src, dst, dirs_exist_ok=True): links are followed
\* (symlinks=False).  exc is the exception of os.makedirs(dst), bad tells
\* that errors were collected (shutil.Error is raised at the end); deep tells
\* that the recursion left the bound of the model
CopyTree(f, src, dst, fuel) ==
    IF fuel = 0
    THEN [fs |-> f, bad |-> FALSE, exc |-> NoExc, deep |-> TRUE]
    ELSE LET names == Listing(f, src)
             m == Makedirs(f, dst)
         IN  IF m.exc # NoExc
             THEN [fs |-> f, bad |-> FALSE, exc |-> m.exc, deep |-> FALSE]
             ELSE CopyEntries([fs |-> m.fs, bad |-> FALSE, exc |-> NoExc,
                               deep |-> FALSE], names, src, dst, fuel)

\* Terminal.cmd_cp
cmd_cp(st, args) ==
    IF Len(args) < 2 THEN Say(st, PrintErr("usage: cp <src> <dst>"))
    ELSE
    LET src == ResolvePath(st.fs, st.cwd, args[1])
        dst == ResolvePath(st.fs, st.cwd, args[2])
    IN  IF Loops(st, args[1]) THEN Loop(st, args[1])
        ELSE IF Loops(st, args[2]) THEN Loop(st, args[2])
        ELSE IF ~Exists(st.fs, src) THEN Say(st, PrintErr("source not found"))
        ELSE IF IsDir(st.fs, src)
        THEN LET d == IF Exists(st.fs, dst) /\ IsDir(st.fs, dst)
                      THEN Append(dst, Name(src)) ELSE dst
                 c == CopyTree(st.fs, src, d, MaxDepth + 2)
             IN  IF c.exc # NoExc THEN Throw(st, c.exc)
                 ELSE IF c.bad
                 THEN Throw([st EXCEPT !.fs = c.fs, !.deep = c.deep],
                            Raise("Error", "errors while copying "
                                           \o PathText(src)))
                 ELSE [st EXCEPT !.fs = c.fs, !.deep = c.deep]
        ELSE LET d == IF IsDir(st.fs, dst) THEN Append(dst, Name(src))
                      ELSE dst
                 m == Mkdir(st.fs, Parent(d))
                 c == Copy2(m.fs, src, d)
             IN  IF m.exc # NoExc THEN Throw(st, m.exc)
                 ELSE IF c.exc # NoExc
                 THEN Throw([st EXCEPT !.fs = m.fs], c.exc)
                 ELSE [st EXCEPT !.fs = c.fs]

\* os.rename(src, dst) of the tree at src onto a path that is free or holds a
\* non-directory: every entry of the tree is re-rooted at dst
Rename(f, src, dst) ==
    LET moved == Tree(f, src)
        at(q) == dst \o SubSeq(q, Len(src) + 1, Len(q))
        rest == Without(f, moved \cup {dst})
    IN  IF src = dst THEN f
        ELSE Over(rest, [n \in {at(q) : q \in moved} |->
                 f[CHOOSE q \in moved : at(q) = n]])

\* shutil.move(src, dst) within one file system; src is canonical and exists
Move(f, src, dst) ==
    LET into == IsDir(f, dst)
        real == IF into THEN Append(dst, Name(src)) ELSE dst
        to == Append(Resolve(f, Parent(real)), Name(real))
    IN  IF into /\ Resolve(f, dst) = src
        THEN [fs |-> f, exc |-> NoExc]
        ELSE IF into /\ Exists(f, real)
        THEN [fs |-> f, exc |-> Raise("Error", "Destination path "
                  \o PathText(real) \o " already exists")]
        ELSE IF f[src].kind = "dir" /\ IsPrefix(src, dst) /\ src # dst
        THEN [fs |-> f, exc |-> Raise("Error", "Cannot move a directory "
                  \o PathText(src) \o " into itself " \o PathText(dst) \o ".")]
        ELSE IF f[src].kind = "dir" /\ LExists(f, to)
        THEN [fs |-> f, exc |-> Raise("FileExistsError",
                  "File exists: " \o PathText(real))]
        ELSE [fs |-> Rename(f, src, to), exc |-> NoExc]

\* Terminal.cmd_mv
cmd_mv(st, args) ==
    IF Len(args) < 2 THEN Say(st, PrintErr("usage: mv <src> <dst>"))
    ELSE
    LET src == ResolvePath(st.fs, st.cwd, args[1])
        dst == ResolvePath(st.fs, st.cwd, args[2])
        m == Mkdir(st.fs, Parent(dst))
        v == Move(m.fs, src, dst)
    IN  IF Loops(st, args[1]) THEN Loop(st, args[1])
        ELSE IF Loops(st, args[2]) THEN Loop(st, args[2])
        ELSE IF ~Exists(st.fs, src) THEN Say(st, PrintErr("source not found"))
        ELSE IF m.exc # NoExc THEN Throw(st, m.exc)
        ELSE IF v.exc # NoExc THEN Throw([st EXCEPT !.fs = m.fs], v.exc)
        ELSE [st EXCEPT !.fs = v.fs]

(***************************************************************************)
(* Handlers that only read.                                                *)
(***************************************************************************)
\* the argument loop of cmd_ls: [show_all, target]; target "" stands for None
LsArgs(args) ==
    LET named == SelectSeq(args, LAMBDA a : a # "-a")
    IN  [show_all |-> \E i \in 1..Len(args) : args[i] = "-a",
         target |-> IF named = <<>> THEN "" ELSE named[Len(named)]]

\* name.startswith('.')
Hidden(n) == n \in {".terminal_history"}

RECURSIVE SayAll(_, _)
SayAll(st, ls) ==
    IF ls = <<>> THEN st ELSE SayAll(Say(st, Head(ls)), Tail(ls))

\* sorted(path.iterdir(), key=(not is_dir, name.lower())) with the hidden
\* names dropped and "/" put after the directories
LsLines(f, path, show_all) ==
    LET names == Listing(f, path)
        shown == SelectSeq(names, LAMBDA n : show_all \/ ~Hidden(n))
        dirs == SelectSeq(shown, LAMBDA n : IsDir(f, Append(path, n)))
        others == SelectSeq(shown, LAMBDA n : ~IsDir(f, Append(path, n)))
    IN  [i \in 1..Len(dirs) |-> Line(dirs[i] \o "/")]
        \o [i \in 1..Len(others) |-> Line(others[i])]

\* Terminal.cmd_ls
cmd_ls(st, args) ==
    LET path == ResolvePath(st.fs, st.cwd, LsArgs(args).target)
    IN  IF Loops(st, LsArgs(args).target) THEN Loop(st, LsArgs(args).target)
        ELSE IF ~Exists(st.fs, path) THEN Say(st, PrintErr("path not found"))
        ELSE IF IsFile(st.fs, path) THEN Say(st, Line(Name(path)))
        ELSE SayAll(st, LsLines(st.fs, path, LsArgs(args).show_all))

\* the lines of the file at the canonical path p, as print(..., end='')
\* writes them
FileLines(f, p) == [i \in 1..Len(f[p].lines) |-> Line(f[p].lines[i])]

RECURSIVE CatEach(_, _)
\* the loop of cmd_cat
CatEach(st, fl) ==
    IF fl = <<>> THEN st
    ELSE IF Loops(st, Head(fl)) THEN Loop(st, Head(fl))
    ELSE LET p == ResolvePath(st.fs, st.cwd, Head(fl))
         IN  IF ~Exists(st.fs, p) \/ ~IsFile(st.fs, p)
             THEN CatEach(Say(st, PrintErr("no such file: " \o Head(fl))),
                          Tail(fl))
             ELSE CatEach(SayAll(st, FileLines(st.fs, p)), Tail(fl))

\* a cat that stops after its first argument
cmd_cat_first(st, args) ==
    IF args = <<>> THEN Say(st, PrintErr("usage: cat <file>..."))
    ELSE CatEach(st, <<Head(args)>>)

\* Terminal.cmd_cat
cmd_cat(st, args) ==
    IF args = <<>> THEN Say(st, PrintErr("usage: cat <file>..."))
    ELSE CatEach(st, args)

\* int(s) succeeds
IsInt(s) == s \in {"-1", "0", "1", "2", "3", "12"}
\* int(s)
IntOf(s) ==
    CASE s = "-1" -> -1 [] s = "0" -> 0 [] s = "1" -> 1 [] s = "2" -> 2
      [] s = "3" -> 3 [] s = "12" -> 12

\* the default N of cmd_head and cmd_tail
DefaultN == 10

RECURSIVE NArgs(_, _, _)
\* the argument loop of cmd_head and cmd_tail: [ok, n, files]
NArgs(args, n, files) ==
    IF args = <<>> THEN [ok |-> TRUE, n |-> n, files |-> files]
    ELSE IF Head(args) = "-n"
    THEN IF Len(args) >= 2 /\ IsInt(args[2])
         THEN NArgs(Tail(Tail(args)), IntOf(args[2]), files)
         ELSE [ok |-> FALSE, n |-> n, files |-> files]
    ELSE NArgs(Tail(args), n, Append(files, Head(args)))

Min(a, b) == IF a < b THEN a ELSE b

\* a _read_n_lines that reads from the start of the file also for tail
ReadNLinesFromStart(ls, n, tail) ==
    IF n <= 0 THEN <<>> ELSE SubSeq(ls, 1, Min(n, Len(ls)))

\* Terminal._read_n_lines(path, n, tail): the lines printed
ReadNLines(ls, n, tail) ==
    IF n <= 0 THEN <<>>
    ELSE IF tail THEN SubSeq(ls, Len(ls) - Min(n, Len(ls)) + 1, Len(ls))
    ELSE SubSeq(ls, 1, Min(n, Len(ls)))

RECURSIVE ReadEach(_, _, _, _)
\* the file loop of cmd_head and cmd_tail
ReadEach(st, fl, n, tail) ==
    IF fl = <<>> THEN st
    ELSE IF Loops(st, Head(fl)) THEN Loop(st, Head(fl))
    ELSE LET p == ResolvePath(st.fs, st.cwd, Head(fl))
         IN  IF ~Exists(st.fs, p) \/ ~IsFile(st.fs, p)
             THEN ReadEach(Say(st, PrintErr("no such file: " \o Head(fl))),
                           Tail(fl), n, tail)
             ELSE ReadEach(SayAll(st, ReadNLines(FileLines(st.fs, p), n,
                                                 tail)),
                           Tail(fl), n, tail)

\* Terminal.cmd_head
cmd_head(st, args) ==
    IF args = <<>> THEN Say(st, PrintErr("usage: head [-n N] <file>"))
    ELSE IF ~NArgs(args, DefaultN, <<>>).ok
    THEN Say(st, PrintErr("invalid N"))
    ELSE ReadEach(st, NArgs(args, DefaultN, <<>>).files,
                  NArgs(args, DefaultN, <<>>).n, FALSE)

\* Terminal.cmd_tail
cmd_tail(st, args) ==
    IF args = <<>> THEN Say(st, PrintErr("usage: tail [-n N] <file>"))
    ELSE IF ~NArgs(args, DefaultN, <<>>).ok
    THEN Say(st, PrintErr("invalid N"))
    ELSE ReadEach(st, NArgs(args, DefaultN, <<>>).files,
                  NArgs(args, DefaultN, <<>>).n, TRUE)

\* Terminal.cmd_help
cmd_help(st, args) == Say(st, Line("Built-in commands: ..."))

\* Terminal.cmd_ps: the listing of the host's tool
cmd_ps(st, args) == Say(st, Line("pid comm pcpu pmem ..."))

\* Terminal.cmd_sysmon
cmd_sysmon(st, args) == Say(st, Line("Snapshot @ ..."))

\* Terminal.cmd_df: shutil.disk_usage(self.root) raises when root is gone
cmd_df(st, args) ==
    IF ~Exists(st.fs, ROOT)
    THEN Throw(st, Raise("FileNotFoundError",
                         "No such file or directory: " \o PathText(ROOT)))
    ELSE Say(st, Line("Filesystem (project root): ..."))

\* Terminal.cmd_history
cmd_history(st, args) == Say(st, Line("history ..."))

(***************************************************************************)
(* The dispatcher.                                                         *)
(***************************************************************************)
\* self.commands of Terminal.__init__: command word -> handler
Commands ==
    [c \in {"help", "pwd", "ls", "cd", "mkdir", "rm", "touch", "cat", "echo",
            "cp", "mv", "head", "tail", "ps", "sysmon", "df", "history",
            "exit", "quit"}
     |-> IF c = "quit" THEN "cmd_exit" ELSE "cmd_" \o c]

NoCmd == "<none>"
NoHandler == "<none>"

\* handler(args)
Call(h, st, args) ==
    CASE h = "cmd_help"    -> cmd_help(st, args)
      [] h = "cmd_pwd"     -> cmd_pwd(st, args)
      [] h = "cmd_ls"      -> cmd_ls(st, args)
      [] h = "cmd_cd"      -> cmd_cd(st, args)
      [] h = "cmd_mkdir"   -> cmd_mkdir(st, args)
      [] h = "cmd_rm"      -> cmd_rm(st, args)
      [] h = "cmd_touch"   -> cmd_touch(st, args)
      [] h = "cmd_cat"     -> cmd_cat(st, args)
      [] h = "cmd_echo"    -> cmd_echo(st, args)
      [] h = "cmd_cp"      -> cmd_cp(st, args)
      [] h = "cmd_mv"      -> cmd_mv(st, args)
      [] h = "cmd_head"    -> cmd_head(st, args)
      [] h = "cmd_tail"    -> cmd_tail(st, args)
      [] h = "cmd_ps"      -> cmd_ps(st, args)
      [] h = "cmd_sysmon"  -> cmd_sysmon(st, args)
      [] h = "cmd_df"      -> cmd_df(st, args)
      [] h = "cmd_history" -> cmd_history(st, args)
      [] h = "cmd_exit"    -> cmd_exit(st, args)

\* the exceptions an "except OSError" would catch
CaughtOSError(e) == e.type \notin {"SystemExit", "RuntimeError", "ValueError"}

\* the exceptions "except Exception" catches: all but SystemExit
Caught(e) == e.type # "SystemExit"

\* the outcome of the try block around handler(args)
Guarded(r) ==
    IF r.exc = NoExc THEN [st |-> r, status |-> "returned"]
    ELSE IF ~Caught(r.exc) THEN [st |-> r, status |-> "exit"]
    ELSE [st |-> Say(r, PrintErr(r.exc.text)), status |-> "returned"]

\* str.lower() of the command words the model types
Lower(c) ==
    CASE c = "CD" -> "cd" [] c = "Exit" -> "exit" [] c = "Quit" -> "quit"
      [] OTHER -> c

\* a lookup that ignores the case of the command word
LookupFolded(c) ==
    IF Lower(c) \in DOMAIN Commands THEN Commands[Lower(c)] ELSE NoHandler

\* the lookup self.commands.get(cmd)
Lookup(c) == IF c \in DOMAIN Commands THEN Commands[c] ELSE NoHandler

(***************************************************************************)
(* The lines typed and the answers given to prompts.                       *)
(***************************************************************************)
RECURSIVE Typed(_)
\* the words of a command typed with one blank between them
Typed(words) ==
    IF Len(words) <= 1 THEN words
    ELSE <<Head(words), SP>> \o Typed(Tail(words))

\* argument lists for the commands that loop over their arguments
Pairs == {<<"a", "f">>, <<"f", "a">>, <<"./a/f", "a">>}

Listed(c) == {<<c>>} \cup {<<c, x>> : x \in PathStrs}
                     \cup {<<c>> \o xy : xy \in Pairs}

\* source and destination arguments of cp and mv
Sources == {"a", "f", "./a/f"}
Targets == {"..", "a", "f", "./a/f"}

WordLines ==
    {<<c>> : c \in {"help", "pwd", "ps", "sysmon", "df", "history", "exit",
                    "quit", "frobnicate", "CD", "Exit"}}
    \cup {<<"exit", "a">>, <<"Quit", "a">>, <<"cd", "a", "f">>}
    \cup {<<"ls">>, <<"ls", "-a">>, <<"ls", "-a", "a">>}
    \cup {<<"ls", x>> : x \in {"a", "f", ".."}}
    \cup {<<"cd">>} \cup {<<"cd", x>> : x \in PathStrs}
    \cup Listed("mkdir") \cup Listed("touch") \cup Listed("rm")
    \cup {<<"rm", "-r">>} \cup {<<"rm", "-r", x>> : x \in PathStrs}
    \cup {<<"rm", "-r", "a", "f">>, <<"rm", "f", "-r", "a">>}
    \cup {<<"cat">>, <<"cat", "f">>, <<"cat", "a">>, <<"cat", "a", "f">>,
          <<"cat", "./a/f", "/a/f">>}
    \cup {<<c>> \o w : c \in {"head", "tail"},
                       w \in {<<>>, <<"f">>, <<"-n", "1", "f">>,
                              <<"-n", "0", "f">>, <<"-n", "3", "a", "f">>,
                              <<"-n", "x", "f">>}}
    \cup {<<"cp", "a">>, <<"mv", "a">>, <<"mv", ".", "a">>}
    \cup {<<c, x, y>> : c \in {"cp", "mv"}, x \in Sources, y \in Targets}

\* lines that exercise blanks, quoting and escapes
RawLines ==
    { <<>>, <<SP>>, <<DQ, DQ>>, <<SP, "pwd", SP>>,
      <<"echo", SP, SQ, "unterminated">>,
      <<"echo", SP, DQ, "a", SP, "b", DQ, SP, "c">>,
      <<"echo", SP, "a", BS>>,
      <<"cd", SP, DQ, DQ>>,
      <<"c", DQ, "d", DQ, SP, SQ, "a", SQ>>,
      <<"mkdir", SP, DQ, "a">>,
      <<"rm", SP, "-r", SP, SQ, "a">> }

Lines == {Typed(w) : w \in WordLines} \cup RawLines

\* what stdin holds when a line is executed: read by rm -r only
Stdins(line) ==
    IF \E i, j \in 1..Len(line) : line[i] = "rm" /\ line[j] = "-r"
    THEN {<<>>, <<"y">>, <<" Y ", "y">>, <<"n", "y">>}
    ELSE {<<>>}

\* shlex.split of every line the model types
Tokens == [l \in Lines |-> Split(l)]

\* how Terminal.execute ends once the try block around handler(args) ended
\* as g says
Dispatched(g, c, h) ==
    [st |-> g.st, parse |-> "ok", cmd |-> c, handler |-> h,
     status |-> g.status]

\* Terminal.execute from the lookup on: c is the command word, h the handler
\* found for it
Dispatch(st, c, h, args) ==
    IF h = NoHandler
    THEN [st |-> Say(st, PrintErr("unknown command: " \o c
                                  \o ". Try 'help'.")),
          parse |-> "ok", cmd |-> c, handler |-> NoHandler,
          status |-> "returned"]
    ELSE Dispatched(Guarded(Call(h, st, args)), c, h)

\* Terminal.execute once shlex.split ended as t says
Parsed(st, t) ==
    IF ~t.ok
    THEN [st |-> Say(st, PrintErr("parse error: " \o t.err)),
          parse |-> "error", cmd |-> NoCmd, handler |-> NoHandler,
          status |-> "returned"]
    ELSE IF t.toks = <<>>
    THEN [st |-> Throw(st, Raise("ValueError",
                  "not enough values to unpack (expected at least 1, got 0)")),
          parse |-> "ok", cmd |-> NoCmd, handler |-> NoHandler,
          status |-> "raised"]
    ELSE Dispatch(st, t.toks[1], Lookup(t.toks[1]), Tail(t.toks))

\* Terminal.execute(line) called in the state st: the state it leaves, what
\* it parsed and dispatched, and how it ended: "returned", "exit" (SystemExit
\* propagates) or "raised" (another exception propagates)
Outcome(st, line) == Parsed(st, Tokens[line])

(***************************************************************************)
(* The state machine.                                                      *)
(***************************************************************************)
NoLine == <<"<none>">>
EOF == <<"<EOF>">>
\* run_command was not called
NoOutput == [set |-> FALSE, lines |-> <<>>, exc |-> NoExc]

\* the entries outside the sandbox when the terminal starts
Outside ==
    [q \in {<<>>, <<"a">>, <<"a", "f">>} |->
        IF q = <<"a", "f">>
        THEN File(<<"l1", "l2", "l3", "l4", "l5", "l6", "l7", "l8", "l9",
                    "l10", "l11">>)
        ELSE Dir]

\* a sandbox that holds, when the terminal starts, a directory a/f and a
\* link f to it
Inside ==
    [q \in {<<>>, ROOT, ROOT \o <<"a">>, ROOT \o <<"a", "f">>,
            ROOT \o <<"f">>} |->
        IF q = ROOT \o <<"f">> THEN Link(ROOT \o <<"a", "f">>) ELSE Dir]

\* links the sandbox may hold when the terminal starts
InitLinks ==
    {[at |-> ROOT \o <<"a">>, to |-> <<"a">>],
     [at |-> ROOT \o <<"f">>, to |-> <<"a", "f">>]}

\* Terminal.__init__: root resolved, cwd = root, the root directory created
Init ==
    /\ \/ \E ls \in SUBSET InitLinks :
             fs = Over(Over(Outside, [q \in {ROOT} |-> Dir]),
                       [q \in {l.at : l \in ls} |->
                           Link((CHOOSE l \in ls : l.at = q).to)])
       \/ fs = Inside
    /\ cwd = ROOT
    /\ raw_line = NoLine
    /\ parse = "none"
    /\ cmd = NoCmd
    /\ handler = NoHandler
    /\ out = <<>>
    /\ status = "ready"
    /\ exc = NoExc
    /\ proc = "running"
    /\ root = ROOT
    /\ commands = Commands
    /\ output = NoOutput

\* the file system stays within the bounds of the model
InBounds(st) ==
    /\ ~st.deep
    /\ Cardinality(DOMAIN st.fs) <= MaxNodes
    /\ \A q \in DOMAIN st.fs : Len(q) <= MaxDepth

\* the session and its surroundings when Terminal.execute is entered
Entry(stdin) ==
    [fs |-> fs, cwd |-> cwd, out |-> <<>>, exc |-> NoExc, stdin |-> stdin,
     deep |-> FALSE, root |-> root, commands |-> commands]

\* the variables after Terminal.execute ended as r says
Leave(r) ==
    /\ InBounds(r.st)
    /\ fs' = r.st.fs
    /\ cwd' = r.st.cwd
    /\ out' = r.st.out
    /\ exc' = r.st.exc
    /\ parse' = r.parse
    /\ cmd' = r.cmd
    /\ handler' = r.handler
    /\ status' = r.status
    /\ root' = r.st.root
    /\ commands' = r.st.commands

\* a front end calls Terminal.execute(line) and survives what it raises
execute(line, stdin) ==
    /\ proc = "running"
    /\ status = "ready"
    /\ raw_line' = line
    /\ Leave(Outcome(Entry(stdin), line))
    /\ UNCHANGED <<proc, output>>

\* line.strip() is empty
Blank(line) == \A i \in 1..Len(line) : line[i] = SP

\* main reports an exception that left Terminal.run: print(f"fatal: {e}")
Fatal(r) ==
    IF r.status = "raised"
    THEN [r EXCEPT !.st.out = Append(@, Line("fatal: " \o r.st.exc.text))]
    ELSE r

\* one iteration of Terminal.run under main: EOF ends the loop, a blank line
\* is skipped, SystemExit ends the process with code 0 and any other
\* exception with "fatal: ..." and code 1
run(line, stdin) ==
    /\ proc = "running"
    /\ status = "ready"
    /\ raw_line' = line
    /\ output' = output
    /\ IF line = EOF
       THEN /\ out' = <<Line(""), Line("exit")>>
            /\ status' = "eof"
            /\ proc' = "exit 0"
            /\ UNCHANGED <<fs, cwd, parse, cmd, handler, exc, root, commands>>
       ELSE IF Blank(line)
       THEN /\ out' = <<>>
            /\ status' = "skipped"
            /\ UNCHANGED <<fs, cwd, parse, cmd, handler, exc, proc, root,
                           commands>>
       ELSE /\ Leave(Fatal(Outcome(Entry(stdin), line)))
            /\ proc' = CASE status' = "exit" -> "exit 0"
                         [] status' = "raised" -> "exit 1"
                         [] OTHER -> proc

\* the invocation (tokens, handler, output, outcome) is discarded when
\* the call is over, and the session is ready for the next line
discard ==
    /\ proc = "running"
    /\ status # "ready"
    /\ raw_line' = NoLine
    /\ parse' = "none"
    /\ cmd' = NoCmd
    /\ handler' = NoHandler
    /\ out' = <<>>
    /\ status' = "ready"
    /\ exc' = NoExc
    /\ output' = NoOutput
    /\ UNCHANGED <<fs, cwd, proc, root, commands>>

\* isinstance(e, Exception)
IsException(e) ==
    e.type \notin {"SystemExit", "KeyboardInterrupt", "GeneratorExit"}

\* a run_command without its except SystemExit clause
AbsorbedException(e) == IsException(e)

\* the except clauses of run_command take the exception e
Absorbed(e) == e.type = "SystemExit" \/ IsException(e)

\* the string run_command returns when Terminal.execute ended as r says:
\* what was printed, then "exit" for SystemExit and f"error: {e}" for an
\* Exception; nothing is returned when the exception gets through
Rendered(r) ==
    CASE r.status = "returned" -> r.st.out
      [] ~Absorbed(r.st.exc) -> <<>>
      [] r.st.exc.type = "SystemExit" -> Append(r.st.out, Line("exit"))
      [] OTHER -> Append(r.st.out, PrintErr(r.st.exc.text))

\* the exception run_command raises when Terminal.execute ended as r says
Escaped(r) ==
    IF r.status # "returned" /\ ~Absorbed(r.st.exc) THEN r.st.exc ELSE NoExc

\* run_command(cmd) of the Streamlit front end: Terminal.execute with its
\* output captured; the string it returns is kept in output
run_command(line, stdin) ==
    /\ proc = "running"
    /\ status = "ready"
    /\ raw_line' = line
    /\ Leave(Outcome(Entry(stdin), line))
    /\ output' = [set |-> TRUE,
                  lines |-> Rendered(Outcome(Entry(stdin), line)),
                  exc |-> Escaped(Outcome(Entry(stdin), line))]
    /\ proc' = proc

\* the strings run_command is called with: what the form and the quick
\* actions submit, and the empty and the blank line, which only a direct call
\* of the function passes
AppLines ==
    { <<>>, <<SP>>, <<"echo", SP, SQ, "unterminated">> }
    \cup {Typed(w) : w \in {<<"exit">>, <<"quit">>, <<"pwd">>, <<"ls">>,
                            <<"cd", "a">>, <<"cd", "f">>, <<"cd">>,
                            <<"mkdir", "a">>,
                            <<"mkdir", "f">>, <<"frobnicate">>,
                            <<"rm", "-r", "a">>}}

\* the lines typed at the prompt of Terminal.run
ReplLines ==
    { <<>>, <<SP>>, <<DQ, DQ>>, <<"echo", SP, SQ, "unterminated">>, EOF }
    \cup {Typed(w) : w \in {<<"exit">>, <<"quit">>, <<"pwd">>, <<"cd", "a">>,
                            <<"mkdir", "a">>, <<"frobnicate">>}}

Next ==
    \/ \E line \in Lines : \E stdin \in Stdins(line) : execute(line, stdin)
    \/ \E line \in ReplLines : \E stdin \in Stdins(line) : run(line, stdin)
    \/ \E line \in AppLines : \E stdin \in Stdins(line) :
          run_command(line, stdin)
    \/ discard

Spec == Init /\ [][Next]_vars

(***************************************************************************)
(* Properties.                                                             *)
(***************************************************************************)
\* Terminal.execute ran for the line in raw_line and has ended
Executed == status \in {"returned", "raised", "exit"}

\* a step in which Terminal.execute runs
Executes == status = "ready" /\ status' \in {"returned", "raised", "exit"}

\* the tokens of the line a step executes
StepToks == Split(raw_line').toks

\* the strings handed to Terminal._resolve_path
Inputs == PathStrs \cup {""}

\* out holds an error line
Reported(o) == \E i \in 1..Len(o) : o[i].err

\* C1: for every input string and every reachable state, _resolve_path
\* returns a path whose canonical form, symlinks resolved, is the root or
\* lies below the root
C1_ResolveWithinRoot ==
    \A s \in Inputs :
        ~ResolveRaises(fs, cwd, s) =>
            RelativeTo(Resolve(fs, ResolvePath(fs, cwd, s)), ROOT)

\* the target of the cd a step executes, in the state before the step
CdTarget ==
    IF Len(StepToks) < 2 THEN ROOT ELSE ResolvePath(fs, cwd, StepToks[2])

\* C2: cwd is always the root or a descendant of the root, also after
\* symlinks are resolved; only cd changes cwd, it commits only a target that
\* passes the re-check and reports nothing then; a target that is an
\* existing directory outside the root is refused with an error line and
\* cwd stays as it was
C2_CwdWithinRoot ==
    /\ [](RelativeTo(cwd, ROOT) /\ RelativeTo(Resolve(fs, cwd), ROOT))
    /\ [][/\ cwd' # cwd =>
                /\ handler' = "cmd_cd"
                /\ cwd' = CdTarget
                /\ RelativeTo(cwd', ROOT)
                /\ out' = <<>>
          /\ (Executes /\ handler' = "cmd_cd" /\ exc' = NoExc
                /\ IsDir(fs, CdTarget) /\ ~RelativeTo(CdTarget, ROOT)) =>
                /\ cwd' = cwd
                /\ out' = <<PrintErr("access outside project root is blocked")>>
                /\ status' = "returned"]_vars

\* cd refused a directory outside the root
C2_Witness ==
    /\ handler = "cmd_cd"
    /\ status = "returned"
    /\ out = <<PrintErr("access outside project root is blocked")>>

\* C3: no entry outside the root is ever created, modified or removed:
\* whatever lies outside the root is what lay there when the terminal
\* started
C3_OutsideUntouched ==
    \A p \in DOMAIN fs \cup DOMAIN Outside :
        ~RelativeTo(p, ROOT) =>
            p \in DOMAIN fs /\ p \in DOMAIN Outside /\ fs[p] = Outside[p]

\* os.path.basename of the path strings the model types
Basename(s) ==
    CASE s = "./a/f" -> "f"
      [] s = "/a/f"  -> "f"
      [] OTHER       -> s

\* C4 as stated: when the canonical form of the input lies outside the
\* root, _resolve_path does not fail and returns exactly
\* root / basename(input)
C4_ClampIsRootBasename ==
    \A s \in PathStrs :
        ~RelativeTo(Canonical(fs, cwd, s), ROOT) =>
            /\ ~ResolveRaises(fs, cwd, s)
            /\ ResolvePath(fs, cwd, s) = Append(ROOT, Basename(s))

\* C4 amended: when the canonical form of the input lies outside the root
\* and _resolve_path returns, it returns the canonical form of root / name,
\* name being the last component of the canonical form of the input; when
\* that form is the file system root there is no such component and the
\* result is the root
C4_ClampIsCanonicalName ==
    \A s \in PathStrs :
        LET p == Canonical(fs, cwd, s)
        IN  (~RelativeTo(p, ROOT) /\ ~ResolveRaises(fs, cwd, s)) =>
                ResolvePath(fs, cwd, s) =
                    IF p = <<>> THEN ROOT
                    ELSE Resolve(fs, Append(ROOT, p[Len(p)]))

\* ls .. was run in the root and listed the root; /a/f lies outside too
C4_Witness ==
    /\ raw_line = <<"ls", SP, "..">>
    /\ status = "returned"
    /\ cwd = ROOT
    /\ ~Reported(out)
    /\ ~RelativeTo(Canonical(fs, cwd, "/a/f"), ROOT)

\* C5: an error raised inside a handler other than exit/quit never leaves
\* execute: execute returns, the last line it printed is the one error line
\* that reports the exception, and the session goes on
C5_HandlerErrorsCaught ==
    /\ handler # NoHandler => status \in {"returned", "exit"}
    /\ (handler \notin {NoHandler, "cmd_exit"} /\ exc # NoExc) =>
          /\ status = "returned"
          /\ out # <<>>
          /\ out[Len(out)] = PrintErr(exc.text)
          /\ proc = "running"

\* mkdir met a file and execute reported it
C5_Witness ==
    /\ handler = "cmd_mkdir"
    /\ exc.type = "FileExistsError"
    /\ status = "returned"
    /\ out = <<PrintErr(exc.text)>>

\* C6: when tokenizing succeeds with an empty token list, execute returns
\* normally with no output, no handler invoked and cwd unchanged
C6_EmptyLineReturns ==
    [][(Executes /\ Split(raw_line').ok /\ StepToks = <<>>) =>
          /\ status' = "returned"
          /\ out' = <<>>
          /\ handler' = NoHandler
          /\ cwd' = cwd]_vars

\* C7: a command word that is not an exact key of the registry gets exactly
\* one error line naming it; no handler runs, execute returns, and cwd and
\* the file system stay as they were
C7_UnknownCommand ==
    [][(Executes /\ Split(raw_line').ok /\ StepToks # <<>>
          /\ StepToks[1] \notin DOMAIN Commands) =>
          /\ out' = <<PrintErr("unknown command: " \o StepToks[1]
                               \o ". Try 'help'.")>>
          /\ handler' = NoHandler
          /\ status' = "returned"
          /\ cwd' = cwd
          /\ fs' = fs]_vars

\* CD was typed for cd
C7_Witness ==
    /\ cmd = "CD"
    /\ handler = NoHandler
    /\ status = "returned"
    /\ out = <<PrintErr("unknown command: CD. Try 'help'.")>>

\* C8: when tokenizing fails, execute reports the parse error and returns;
\* no handler runs, nothing else is printed, and cwd and the file system
\* stay as they were
C8_ParseError ==
    [][(Executes /\ ~Lex(raw_line', SP, "a", "", FALSE, <<>>).ok) =>
          /\ parse' = "error"
          /\ out' = <<PrintErr("parse error: "
                       \o Lex(raw_line', SP, "a", "", FALSE, <<>>).err)>>
          /\ handler' = NoHandler
          /\ status' = "returned"
          /\ cwd' = cwd
          /\ fs' = fs]_vars

\* mkdir with an unbalanced quote created nothing
C8_Witness ==
    /\ raw_line = <<"mkdir", SP, DQ, "a">>
    /\ parse = "error"
    /\ out = <<PrintErr("parse error: No closing quotation")>>
    /\ ROOT \o <<"a">> \notin DOMAIN fs

\* C9: exit and quit, and nothing else, make execute raise the termination
\* signal; it is SystemExit(0), comes without any output, and under main
\* ends the process with code 0, which no other command does
C9_OnlyExitTerminates ==
    /\ Executed => (status = "exit" <=> cmd \in {"exit", "quit"})
    /\ status = "exit" =>
          /\ handler = "cmd_exit"
          /\ exc = Raise("SystemExit", "0")
          /\ out = <<>>
    /\ (proc # "running" /\ status # "eof") =>
          /\ status = "exit"
          /\ proc = "exit 0"

\* quit, with an argument it ignores, ended the call; quit ended the process
C9_Witness ==
    /\ cmd = "quit"
    /\ status = "exit"
    /\ proc = "exit 0"

\* C10: a cd whose target does not exist, is not a directory or fails the
\* re-check reports an error and leaves cwd as it was
C10_FailedCdKeepsCwd ==
    [][(Executes /\ handler' = "cmd_cd"
          /\ (\/ ~Exists(fs, CdTarget)
              \/ ~IsDir(fs, CdTarget)
              \/ ~RelativeTo(CdTarget, ROOT))) =>
          /\ cwd' = cwd
          /\ Reported(out')
          /\ status' = "returned"]_vars

\* cd to a missing directory, tried from a directory below the root
C10_Witness ==
    /\ handler = "cmd_cd"
    /\ out = <<PrintErr("no such directory")>>
    /\ cwd # ROOT

\* Terminal.execute of the typed words in the session st
Ran(st, words) == Parsed(st, Split(Typed(words)))

\* the session st as the next call of Terminal.execute finds it
Again(st) == [st EXCEPT !.out = <<>>, !.exc = NoExc]

\* C11: in every state a sequence of commands reaches, cd without an
\* argument sets cwd to root
C11_CdHome ==
    status = "ready" => Ran(Entry(<<>>), <<"cd">>).st.cwd = ROOT

\* the names of the entries the model puts into a directory
Subs == {"a", "f"}

\* cwd after cd sub followed by cd ..
RoundTrip(sub) ==
    Ran(Again(Ran(Entry(<<>>), <<"cd", sub>>).st), <<"cd", "..">>).st.cwd

\* C12 as stated: for every directory sub that exists under cwd (is_dir
\* follows links), cd sub followed by cd .. returns cwd to what it was
C12_CdRoundTrip ==
    status = "ready" =>
        \A sub \in Subs :
            IsDir(fs, Append(cwd, sub)) => RoundTrip(sub) = cwd

\* C12 amended: for every directory sub that exists under cwd and is not a
\* symbolic link, cd sub moves to cwd/sub and cd .. then returns cwd to what
\* it was
C12_CdRoundTripNoLink ==
    status = "ready" =>
        \A sub \in Subs :
            Kind(fs, Append(cwd, sub)) = "dir" =>
                /\ Ran(Entry(<<>>), <<"cd", sub>>).st.cwd = Append(cwd, sub)
                /\ RoundTrip(sub) = cwd

\* cd a has moved from the root into the directory a of the root, and the
\* cd .. that follows leads back to the root
C12_Witness ==
    /\ raw_line = Typed(<<"cd", "a">>)
    /\ status = "returned"
    /\ out = <<>>
    /\ cwd = ROOT \o <<"a">>
    /\ Kind(fs, cwd) = "dir"
    /\ Ran(Entry(<<>>), <<"cd", "..">>).st.cwd = ROOT
    /\ Ran(Entry(<<>>), <<"cd", "..">>).st.out = <<>>

\* C13: every command other than cd, whether it succeeds or fails, leaves
\* cwd unchanged, and no command, cd included, changes root or the command
\* registry: they stay what the constructor made them
C13_OnlyCdMovesCwd ==
    /\ [](root = ROOT /\ commands = Commands)
    /\ [][/\ cwd' # cwd => handler' = "cmd_cd"
          /\ root' = root
          /\ commands' = commands]_vars

\* rm -r, called below the root, has removed the current directory: cwd
\* still names it, root and the registry are what they were
C13_Witness ==
    /\ handler = "cmd_rm"
    /\ status = "returned"
    /\ cwd # ROOT
    /\ ~Exists(fs, cwd)
    /\ root = ROOT
    /\ commands = Commands

\* the entry the path string s names in the current state
Target(s) == Resolve(fs, ResolvePath(fs, cwd, s))

\* the lines of the output o
Said(o) == {o[i] : i \in 1..Len(o)}

\* the loop over the path strings ps gets as far as its i-th string
Reaches(ps, i) == \A j \in 1..(i - 1) : ~ResolveRaises(fs, cwd, ps[j])

\* C14: rm without -r, applied to a path that resolves to a directory,
\* reports "is a directory (use -r)" for that path and leaves the directory
\* and all of its contents intact (a file in it that is itself an argument
\* of the same rm is removed)
C14_RmKeepsDirectory ==
    status = "ready" =>
        \A w \in Listed("rm") : \A i \in 2..Len(w) :
            (/\ Reaches(Tail(w), i - 1)
             /\ ~ResolveRaises(fs, cwd, w[i])
             /\ IsDir(fs, Target(w[i]))) =>
                /\ PrintErr("is a directory (use -r): " \o w[i])
                      \in Said(Ran(Entry(<<>>), w).st.out)
                /\ \A q \in Tree(fs, Target(w[i])) \
                             {Target(w[j]) : j \in 2..Len(w)} :
                      /\ q \in DOMAIN Ran(Entry(<<>>), w).st.fs
                      /\ Ran(Entry(<<>>), w).st.fs[q] = fs[q]
                /\ Kind(Ran(Entry(<<>>), w).st.fs, Target(w[i])) = "dir"

\* rm f a has removed the file f and refused the directory a, which holds
\* an entry
C14_Witness ==
    /\ raw_line = Typed(<<"rm", "f", "a">>)
    /\ status = "returned"
    /\ out = <<PrintErr("is a directory (use -r): a")>>
    /\ Kind(fs, Append(cwd, "a")) = "dir"
    /\ Append(cwd, "f") \notin DOMAIN fs
    /\ Tree(fs, Append(cwd, "a")) # {Append(cwd, "a")}

\* what stdin may hold when rm -r asks: nothing (end-of-input), or answers
Answers == {<<>>, <<"y">>, <<" Y ", "y">>, <<"n", "y">>, <<"yes">>, <<"">>}

\* the first answer is a y, whatever its case and the blanks around it
SaysYes(stdin) == stdin # <<>> /\ Head(stdin) \in {"y", " Y "}

\* the prompt of rm -r for the path string s
Prompt(s) == Line("rm -r " \o PathText(ResolvePath(fs, cwd, s)) \o " [y/N]: ")

\* C15: rm -r on a directory asks, and deletes the tree only when the answer
\* is y (case and surrounding blanks ignored, as _confirm reads it): the
\* directory and all below it are gone then and nothing else is; on any
\* other answer or end-of-input it prints "aborted", the file system stays
\* as it was, and rm goes on to the next path, which it handles as an rm -r
\* of that path alone would with the answers that are left
C15_RmRecursiveConfirmed ==
    status = "ready" =>
        \A stdin \in Answers :
            /\ \A x \in PathStrs :
                  (~ResolveRaises(fs, cwd, x) /\ IsDir(fs, Target(x))) =>
                      IF SaysYes(stdin)
                      THEN /\ Ran(Entry(stdin), <<"rm", "-r", x>>).st.fs
                                = Without(fs, Tree(fs, Target(x)))
                           /\ ~Exists(Ran(Entry(stdin), <<"rm", "-r", x>>).st.fs,
                                      Target(x))
                           /\ Ran(Entry(stdin), <<"rm", "-r", x>>).st.out
                                = <<Prompt(x)>>
                      ELSE /\ Ran(Entry(stdin), <<"rm", "-r", x>>).st.fs = fs
                           /\ Ran(Entry(stdin), <<"rm", "-r", x>>).st.out
                                = <<Prompt(x), Line("aborted")>>
            /\ (/\ ~ResolveRaises(fs, cwd, "a")
                /\ IsDir(fs, Target("a"))
                /\ ~SaysYes(stdin)) =>
                    /\ Ran(Entry(stdin), <<"rm", "-r", "a", "f">>).st.fs
                         = Ran(Entry(IF stdin = <<>> THEN <<>> ELSE Tail(stdin)),
                               <<"rm", "-r", "f">>).st.fs
                    /\ Ran(Entry(stdin), <<"rm", "-r", "a", "f">>).st.out
                         = <<Prompt("a"), Line("aborted")>>
                           \o Ran(Entry(IF stdin = <<>> THEN <<>>
                                        ELSE Tail(stdin)),
                                  <<"rm", "-r", "f">>).st.out

\* rm -r a f, answered n and then y, has kept the directory a with what it
\* holds and deleted the directory f
C15_Witness ==
    /\ raw_line = Typed(<<"rm", "-r", "a", "f">>)
    /\ status = "returned"
    /\ Len(out) = 3
    /\ out[2] = Line("aborted")
    /\ out[3] = Line("rm -r " \o PathText(Append(cwd, "f")) \o " [y/N]: ")
    /\ Kind(fs, Append(cwd, "a")) = "dir"
    /\ Append(cwd, "f") \notin DOMAIN fs

\* the commands that loop over several paths, and the paths given to them
PerItem == {"rm", "cat", "head", "tail"}
Several ==
    {<<x, y>> : x, y \in {"a", "f", "./a/f", ".."}}
    \cup {<<"a", "f", "./a/f">>, <<"f", "a", "f">>}

\* the command c finds the path string x missing or of the wrong type
Fails(c, x) ==
    IF c = "rm"
    THEN ~Exists(fs, ResolvePath(fs, cwd, x))
            \/ IsDir(fs, ResolvePath(fs, cwd, x))
    ELSE ~IsFile(fs, ResolvePath(fs, cwd, x))

\* the error line the command c prints for the failing path string x
ErrorFor(c, x) ==
    IF c # "rm" THEN PrintErr("no such file: " \o x)
    ELSE IF ~Exists(fs, ResolvePath(fs, cwd, x))
    THEN PrintErr("not found: " \o x)
    ELSE PrintErr("is a directory (use -r): " \o x)

\* the failing items of ps, the error lines for them, and the other items
Failing(c, ps) == SelectSeq(ps, LAMBDA x : Fails(c, x))
ErrorsFor(c, ps) ==
    [i \in 1..Len(Failing(c, ps)) |-> ErrorFor(c, Failing(c, ps)[i])]
Kept(c, ps) == SelectSeq(ps, LAMBDA x : ~Fails(c, x))

\* r is what the command leaves for all the items, k what it leaves for
\* the items that do not fail: r holds one error line for each failing item,
\* in the order given, and is k in all else
Isolates(c, ps, r, k) ==
    /\ SelectSeq(r.out, LAMBDA l : l.err) = ErrorsFor(c, ps)
    /\ SelectSeq(r.out, LAMBDA l : ~l.err)
          = IF Kept(c, ps) = <<>> THEN <<>> ELSE k.out
    /\ r.fs = IF Kept(c, ps) = <<>> THEN fs ELSE k.fs
    /\ r.cwd = cwd

\* no two of the path strings ps name the same entry
Apart(ps) ==
    \A i, j \in 1..Len(ps) : i # j => Target(ps[i]) # Target(ps[j])

\* C16: rm, cat, head and tail, given several paths each of which resolves
\* (and, for rm, no two of which name the same entry), print one error line
\* for each missing or wrong-type item and go on: the other items are
\* removed or printed exactly as if the failing items had not been given
C16_PerItemIsolation ==
    status = "ready" =>
        \A c \in PerItem : \A ps \in Several :
            (/\ \A i \in 1..Len(ps) : ~ResolveRaises(fs, cwd, ps[i])
             /\ c = "rm" => Apart(ps)) =>
                Isolates(c, ps, Ran(Entry(<<>>), <<c>> \o ps).st,
                         Ran(Entry(<<>>), <<c>> \o Kept(c, ps)).st)

\* cat a f has reported the directory a and printed the lines of the file f
C16_Witness ==
    /\ raw_line = Typed(<<"cat", "a", "f">>)
    /\ status = "returned"
    /\ Len(out) = 12
    /\ out[1] = PrintErr("no such file: a")
    /\ out[2] = Line("l1")
    /\ out[12] = Line("l11")

\* the session after mkdir x, and after a second mkdir x
MkdirOnce(x) == Ran(Entry(<<>>), <<"mkdir", x>>).st
MkdirTwice(x) == Ran(Again(MkdirOnce(x)), <<"mkdir", x>>).st

\* C17: for every name x that is absent or already a directory, mkdir x
\* twice leaves the file system that mkdir x once leaves, with a directory
\* x and all that existed before, and the second call reports no error
C17_MkdirIdempotent ==
    status = "ready" =>
        \A x \in Subs :
            (Kind(fs, Append(cwd, x)) = "none" \/ IsDir(fs, Append(cwd, x))) =>
                /\ MkdirTwice(x).fs = MkdirOnce(x).fs
                /\ MkdirTwice(x).out = <<>>
                /\ IsDir(MkdirTwice(x).fs, Append(cwd, x))
                /\ \A q \in DOMAIN fs :
                      /\ q \in DOMAIN MkdirTwice(x).fs
                      /\ MkdirTwice(x).fs[q] = fs[q]

\* C19: in every state a sequence of execute calls reaches, cwd names an
\* existing directory: no rm -r and no mv removes or relocates the current
\* directory or one of its ancestors
C19_CwdExists == IsDir(fs, cwd)

\* the values of N the model types after -n, and no -n at all
Ns == {"-1", "0", "1", "2", "3", "12"}
NoN == "none"

\* the arguments of head or tail for the count N and the path string x
CountArgs(N, x) == IF N = NoN THEN <<x>> ELSE <<"-n", N, x>>

\* how many lines of a file of L lines are to be printed for N
Count(N, L) ==
    IF N = NoN THEN Min(10, L)
    ELSE IF IntOf(N) <= 0 THEN 0
    ELSE Min(IntOf(N), L)

\* o holds the k lines of ls that start after the first skip lines
Shows(o, ls, skip, k) ==
    /\ Len(o) = k
    /\ \A i \in 1..k : o[i] = Line(ls[skip + i])

\* C18: for a file of L lines, head -n N prints the first min(N, L) lines
\* and tail -n N the last min(N, L) lines, in file order: nothing for
\* N <= 0, the L lines for N > L; without -n, N is 10
C18_HeadTailCounts ==
    status = "ready" =>
        \A x \in PathStrs : \A N \in Ns \cup {NoN} :
            (~ResolveRaises(fs, cwd, x) /\ IsFile(fs, Target(x))) =>
                /\ Shows(Ran(Entry(<<>>), <<"head">> \o CountArgs(N, x)).st.out,
                         fs[Target(x)].lines, 0,
                         Count(N, Len(fs[Target(x)].lines)))
                /\ Shows(Ran(Entry(<<>>), <<"tail">> \o CountArgs(N, x)).st.out,
                         fs[Target(x)].lines,
                         Len(fs[Target(x)].lines)
                            - Count(N, Len(fs[Target(x)].lines)),
                         Count(N, Len(fs[Target(x)].lines)))
                /\ Ran(Entry(<<>>), <<"head">> \o CountArgs(N, x)).st.fs = fs
                /\ Ran(Entry(<<>>), <<"tail">> \o CountArgs(N, x)).st.fs = fs

\* tail -n 1 f has printed the last of the eleven lines of the file f
C18_Witness ==
    /\ raw_line = Typed(<<"tail", "-n", "1", "f">>)
    /\ status = "returned"
    /\ out = <<Line("l11")>>

\* C20: run_command never raises: it returns what was printed, followed by
\* the line "exit" when the command was exit or quit and by one error line
\* when another exception came out of execute; the process goes on, and a
\* call that ended in either way leaves cwd, root and the registry as they
\* were
C20_RunCommandNeverRaises ==
    /\ [](output.set =>
            /\ output.exc = NoExc
            /\ proc = "running"
            /\ status = "returned" => output.lines = out
            /\ status = "exit" => output.lines = <<Line("exit")>>
            /\ status = "raised" =>
                  /\ exc # NoExc
                  /\ output.lines = <<PrintErr(exc.text)>>)
    /\ [][(output'.set /\ status' \in {"exit", "raised"}) =>
            /\ status = "ready"
            /\ cwd' = cwd
            /\ fs' = fs
            /\ root' = root
            /\ commands' = commands]_vars

\* run_command, called with an empty line after a cd below the root, has
\* turned the ValueError of execute into one error line
C20_Witness ==
    /\ output.set
    /\ raw_line = <<>>
    /\ status = "raised"
    /\ exc.type = "ValueError"
    /\ output.lines = <<PrintErr(exc.text)>>
    /\ cwd # ROOT
    /\ proc = "running"

====
